---- MODULE Spec2Model ----
(***************************************************************************)
(* A model of fast-language-guesser's LanguageGuesser (src/src/language.ts)*)
(*                                                                         *)
(* Texts are sequences of characters.  A character is one of the atoms of  *)
(* Alphabet; each atom stands for a class of Unicode characters that the   *)
(* code treats alike (a Latin lower-case letter, a Cyrillic letter, ...).  *)
(* Numbers that the code computes as fractions are kept exact:             *)
(*   - distances are kept in HALF units (getDistance adds |f - r| / 2),    *)
(*   - scores are reduced fractions <<numerator, denominator>>.            *)
(***************************************************************************)
EXTENDS Integers, Sequences, FiniteSets, TLC

(***************************************************************************)
(* Bounds of the model                                                     *)
(***************************************************************************)
\* longest text handed to detectAll / guess / guessBest
MaxTextLen == 10
\* longest allow-list / deny-list
MaxListLen == 2

\* the longest trigram profile handed to getDistance directly
MaxProfileLen == 2

(***************************************************************************)
(* Program constants                                                       *)
(***************************************************************************)
MISSING_TRIGRAM_PENALTY == 300
DefaultMinLength == 10
MaxAnalyzed == 2048
DefaultLimit == 3
MinSegmentLength == 10
LongSegmentLength == 40
DefaultWindowSize == 40
DefaultStepSize == 20
SegmentCandidates == 3

(***************************************************************************)
(* Generic helpers                                                         *)
(***************************************************************************)
Range(s) == {s[i] : i \in DOMAIN s}

Includes(list, x) == \E i \in DOMAIN list : list[i] = x

Abs(x) == IF x < 0 THEN -x ELSE x

Max2(a, b) == IF a >= b THEN a ELSE b

Min2(a, b) == IF a <= b THEN a ELSE b

RECURSIVE Gcd(_, _)
Gcd(a, b) == IF b = 0 THEN a ELSE Gcd(b, a % b)

\* an optional value (undefined in the code) is the empty set, a present one a singleton
None == {}

Some(x) == {x}

IsSome(o) == o # {}

Get(o) == CHOOSE x \in o : TRUE

\* o ?? d
OrElse(o, d) == IF IsSome(o) THEN Get(o) ELSE d

\* String.prototype.substring(from, to) with 0-based from and exclusive to
Substring(s, from, to) ==
  LET a == Min2(Max2(from, 0), Len(s))
      b == Min2(Max2(to, 0), Len(s))
  IN  SubSeq(s, Min2(a, b) + 1, Max2(a, b))

(***************************************************************************)
(* Exact fractions                                                         *)
(***************************************************************************)
Frac(n, d) ==
  LET g == Gcd(Abs(n), Abs(d))
      s == IF d < 0 THEN -1 ELSE 1
  IN  <<(s * n) \div g, (s * d) \div g>>

One == <<1, 1>>

Zero == <<0, 1>>

\* the sign of a/b - c/d for b, d > 0, by continued fractions: no product is
\* formed, so no intermediate value exceeds the operands
RECURSIVE CmpFrac(_, _, _, _)
CmpFrac(a, b, c, d) ==
  LET qa == a \div b
      qc == c \div d
      ra == a % b
      rc == c % d
  IN  IF qa < qc THEN -1
      ELSE IF qa > qc THEN 1
      ELSE IF ra = 0 /\ rc = 0 THEN 0
      ELSE IF ra = 0 THEN -1
      ELSE IF rc = 0 THEN 1
      ELSE CmpFrac(d, rc, b, ra)

FLess(x, y) == CmpFrac(x[1], x[2], y[1], y[2]) < 0

FLeq(x, y) == CmpFrac(x[1], x[2], y[1], y[2]) <= 0

Half == <<1, 2>>

(***************************************************************************)
(* Exact rationals of any size, for sums of weighted scores: magnitudes    *)
(* are sequences of digits, least significant first, without leading zeros *)
(***************************************************************************)
BigBase == 100 * 100

RECURSIVE BigOf(_)
BigOf(n) == IF n = 0 THEN <<>> ELSE <<n % BigBase>> \o BigOf(n \div BigBase)

RECURSIVE BigTrim(_)
BigTrim(a) ==
  IF a # <<>> /\ a[Len(a)] = 0 THEN BigTrim(SubSeq(a, 1, Len(a) - 1)) ELSE a

Digit(a, i) == IF i <= Len(a) THEN a[i] ELSE 0

RECURSIVE BigAddFrom(_, _, _, _)
BigAddFrom(a, b, i, carry) ==
  IF i > Len(a) /\ i > Len(b)
  THEN IF carry = 0 THEN <<>> ELSE <<carry>>
  ELSE LET t == Digit(a, i) + Digit(b, i) + carry
       IN  <<t % BigBase>> \o BigAddFrom(a, b, i + 1, t \div BigBase)

BigAdd(a, b) == BigAddFrom(a, b, 1, 0)

\* a - b for a >= b
RECURSIVE BigSubFrom(_, _, _, _)
BigSubFrom(a, b, i, borrow) ==
  IF i > Len(a) THEN <<>>
  ELSE LET t == Digit(a, i) - Digit(b, i) - borrow
       IN  <<t % BigBase>> \o BigSubFrom(a, b, i + 1, IF t < 0 THEN 1 ELSE 0)

BigSub(a, b) == BigTrim(BigSubFrom(a, b, 1, 0))

\* the sign of a - b
RECURSIVE BigCmpFrom(_, _, _)
BigCmpFrom(a, b, i) ==
  IF i = 0 THEN 0
  ELSE IF a[i] < b[i] THEN -1
  ELSE IF a[i] > b[i] THEN 1
  ELSE BigCmpFrom(a, b, i - 1)

BigCmp(a, b) ==
  IF Len(a) < Len(b) THEN -1
  ELSE IF Len(a) > Len(b) THEN 1
  ELSE BigCmpFrom(a, b, Len(a))

RECURSIVE BigMulDigit(_, _, _, _)
BigMulDigit(a, d, i, carry) ==
  IF i > Len(a) THEN IF carry = 0 THEN <<>> ELSE <<carry>>
  ELSE LET t == a[i] * d + carry
       IN  <<t % BigBase>> \o BigMulDigit(a, d, i + 1, t \div BigBase)

RECURSIVE BigMul(_, _)
BigMul(a, b) ==
  IF a = <<>> \/ b = <<>> THEN <<>>
  ELSE LET rest == BigMul(a, Tail(b))
       IN  BigAdd(BigTrim(BigMulDigit(a, Head(b), 1, 0)),
                  IF rest = <<>> THEN <<>> ELSE <<0>> \o rest)

\* a rational is a sign, a numerator and a positive denominator
QOf(n, d) ==
  [neg |-> (n < 0) # (d < 0), num |-> BigOf(Abs(n)), den |-> BigOf(Abs(d))]

QZero == QOf(0, 1)

\* the sign of x - y from the cross products l = x.num * y.den, r = y.num * x.den
QCmpCross(xneg, yneg, l, r) ==
  IF xneg /\ ~yneg THEN -1
  ELSE IF ~xneg /\ yneg THEN 1
  ELSE IF xneg THEN BigCmp(r, l)
  ELSE BigCmp(l, r)

QCmp(x, y) ==
  QCmpCross(x.neg /\ x.num # <<>>, y.neg /\ y.num # <<>>,
            BigMul(x.num, y.den), BigMul(y.num, x.den))

QEq(x, y) == QCmp(x, y) = 0

QLess(x, y) == QCmp(x, y) < 0

QLeq(x, y) == QCmp(x, y) <= 0

\* l - r with the sign lneg of l, for magnitudes l and r
QDiff(lneg, l, r, cmp, den) ==
  IF cmp >= 0 THEN [neg |-> lneg, num |-> BigSub(l, r), den |-> den]
  ELSE [neg |-> ~lneg, num |-> BigSub(r, l), den |-> den]

QAddCross(xneg, yneg, l, r, den) ==
  IF xneg = yneg THEN [neg |-> xneg, num |-> BigAdd(l, r), den |-> den]
  ELSE QDiff(xneg, l, r, BigCmp(l, r), den)

QAdd(x, y) ==
  QAddCross(x.neg, y.neg, BigMul(x.num, y.den), BigMul(y.num, x.den),
            BigMul(x.den, y.den))

\* x * k and x / k for a natural number k (k > 0 for the quotient)
QMulNat(x, k) == [neg |-> x.neg, num |-> BigMul(x.num, BigOf(k)), den |-> x.den]

QDivNat(x, k) == [neg |-> x.neg, num |-> x.num, den |-> BigMul(x.den, BigOf(k))]

(***************************************************************************)
(* The number type: IEEE 754 doubles, written m / 2^exp as a rational      *)
(***************************************************************************)
\* 2^n as a magnitude
RECURSIVE Pow2(_)
Pow2(n) == IF n <= 30 THEN BigOf(2 ^ n) ELSE BigMul(BigOf(2 ^ 30), Pow2(n - 30))

\* quotient and remainder of a magnitude by a positive integer d < 2^31 / BigBase
RECURSIVE BigDivSmall(_, _)
BigDivSmall(a, d) ==
  IF a = <<>> THEN [quot |-> <<>>, rem |-> 0]
  ELSE LET high == BigDivSmall(Tail(a), d)
           cur == high.rem * BigBase + Head(a)
       IN  [quot |-> BigTrim(<<cur \div d>> \o high.quot), rem |-> cur % d]

\* the double nearest to n / (d * 2^k), ties to even, for a magnitude n and a
\* positive integer d; d = 1 when n has more than 53 bits, and n has at most
\* 53 + 14 bits
RoundToDouble(n, d, k) ==
  LET Log2(x) == CHOOSE b \in 0..30 : 2 ^ b <= x /\ (b = 30 \/ x < 2 ^ (b + 1))
      FloorLog2(a) ==
        LET low == 13 * (Len(a) - 1) + Log2(a[Len(a)])
        IN  CHOOSE b \in low..(low + 4) :
              BigCmp(Pow2(b), a) <= 0 /\ BigCmp(a, Pow2(b + 1)) < 0
      \* the double m / 2^exp
      DoubleOf(m, exp) ==
        IF exp >= 0 THEN [neg |-> FALSE, num |-> m, den |-> Pow2(exp), exp |-> exp]
        ELSE [neg |-> FALSE, num |-> BigMul(m, Pow2(-exp)), den |-> <<1>>, exp |-> 0]
      \* cmpHalf is the sign of (the discarded part - half a unit in the last place)
      RoundUp(quot, cmpHalf) ==
        IF cmpHalf > 0 \/ (cmpHalf = 0 /\ quot[1] % 2 = 1)
        THEN BigAdd(quot, <<1>>) ELSE quot
  IN  IF n = <<>> THEN DoubleOf(<<>>, 0)
      ELSE LET j0 == 52 - FloorLog2(n) + Log2(d)
               \* the quotient n * 2^j / d has exactly 53 bits
               j == IF j0 >= 0 /\ BigCmp(BigMul(n, Pow2(j0)),
                                         BigMul(Pow2(52), BigOf(d))) < 0
                    THEN j0 + 1 ELSE j0
           IN  IF j >= 0
               THEN LET qr == BigDivSmall(BigMul(n, Pow2(j)), d)
                    IN  DoubleOf(RoundUp(qr.quot, IF 2 * qr.rem > d THEN 1
                                                  ELSE IF 2 * qr.rem = d THEN 0 ELSE -1),
                                 k + j)
               ELSE LET quot == BigDivSmall(n, 2 ^ (-j)).quot
                        low == BigSub(n, BigMul(quot, Pow2(-j)))
                    IN  DoubleOf(RoundUp(quot, BigCmp(BigAdd(low, low), Pow2(-j))),
                                 k + j)

\* the double 1 - ((d - minDistance) / denom || 0) of a candidate whose exact
\* score is the fraction score = 1 - (d - minDistance) / denom in [0, 1]
ScoreAsDouble(score) ==
  LET quotient == RoundToDouble(BigOf(score[2] - score[1]), score[2], 0)
  IN  RoundToDouble(BigSub(Pow2(quotient.exp), quotient.num), 1, quotient.exp)

(***************************************************************************)
(* Characters and scripts (regex.ts)                                       *)
(***************************************************************************)
LatinLower == {"a", "b"}

LatinUpper == {"A"}

Whitespace == {" "}

\* the characters of [!-@]: ASCII punctuation and digits
Punctuation == {"."}

\* characters of Script=Latin that are not of category Letter (Roman numerals)
LatinNumerals == {"ROMAN"}

Letters == LatinLower \cup LatinUpper \cup {"CYR", "HAN", "THAI"}

Alphabet == Letters \cup Whitespace \cup Punctuation

\* the keys of `scripts`, in the order of the object literal
scriptKeys == <<"cmn", "Latin", "Cyrillic", "jpn", "tha">>

\* the characters of the alphabet matched by scripts[key]
scripts(key) ==
  CASE key = "cmn" -> {"HAN"}
    [] key = "Latin" -> LatinLower \cup LatinUpper \cup LatinNumerals
    [] key = "Cyrillic" -> {"CYR"}
    [] key = "tha" -> {"THAI"}
    [] OTHER -> {}

\* inputText.match(/.../gu)?.length ?? 0 for a one-character pattern
MatchCount(inputText, class) ==
  Cardinality({i \in DOMAIN inputText : inputText[i] \in class})

(***************************************************************************)
(* Static data tables (data/ngrams.json, data/languages.json)              *)
(* The two JSON files are not among the sources: the tables below are      *)
(* small tables of the shape the loaders produce, with three Latin and     *)
(* three Cyrillic languages that have models, one of them ("bul") without  *)
(* a row in the registry, and Chinese, Japanese and Thai that have none.   *)
(***************************************************************************)
\* ngramsData[script]: the languages of a script in enumeration order, each
\* with its model, the trigrams ordered by rank (ngrams.ts)
ngramsData ==
  [Latin |->
     << <<"eng", << <<" ", "a", " ">>, <<"a", " ", "a">>, <<" ", "a", "b">>,
                    <<"a", "b", "a">>, <<"a", "b", " ">> >> >>,
        <<"spa", << <<"b", "a", "b">>, <<" ", "b", "a">>, <<"a", "b", "a">>,
                    <<"b", "a", " ">>, <<" ", "b", " ">>, <<"b", " ", "b">> >> >>,
        <<"por", << <<"a", "a", "a">>, <<" ", "a", "a">>, <<"a", "a", " ">>,
                    <<"b", "b", "b">> >> >> >>,
   Cyrillic |->
     << <<"rus", << <<"CYR", "CYR", "CYR">>, <<" ", "CYR", "CYR">>,
                    <<"CYR", "CYR", " ">> >> >>,
        <<"bul", << <<"CYR", " ", "CYR">>, <<" ", "CYR", " ">> >> >>,
        <<"ukr", << <<" ", "CYR", " ">>, <<"CYR", " ", "CYR">>,
                    <<"CYR", "CYR", "CYR">> >> >> >>]

\* Object.keys of a language table
Keys(languages) == [i \in DOMAIN languages |-> languages[i][1]]

\* languages[lang]
ModelOf(languages, lang) ==
  LET i == CHOOSE j \in DOMAIN languages : languages[j][1] = lang
  IN  languages[i][2]

\* the rows [alpha2, alpha3, name] of languages.json
languageDataRaw ==
  << <<"en", "eng", "English">>, <<"es", "spa", "Spanish">>,
     <<"pt", "por", "Portuguese">>, <<"ru", "rus", "Russian">>,
     <<"uk", "ukr", "Ukrainian">>, <<"zh", "cmn", "Chinese">>,
     <<"ja", "jpn", "Japanese">>, <<"th", "tha", "Thai">> >>

(***************************************************************************)
(* Trigram extraction                                                      *)
(***************************************************************************)
toLowerCase(c) == IF c = "A" THEN "a" ELSE c

RECURSIVE DropWhile(_, _)
DropWhile(s, class) ==
  IF s # <<>> /\ Head(s) \in class THEN DropWhile(Tail(s), class) ELSE s

\* s.replace(/[class]+/g, " "): each character of the class becomes a space,
\* and only the first of a run is kept
ReplaceRuns(s, class) ==
  LET marked == [i \in DOMAIN s |->
                   IF s[i] \in class
                   THEN <<" ", i = 1 \/ s[i - 1] \notin class>>
                   ELSE <<s[i], TRUE>>]
      Kept(m) == m[2]
      kept == SelectSeq(marked, Kept)
  IN  [i \in DOMAIN kept |-> kept[i][1]]

RECURSIVE DropLastWhile(_, _)
DropLastWhile(s, class) ==
  IF s # <<>> /\ s[Len(s)] \in class
  THEN DropLastWhile(SubSeq(s, 1, Len(s) - 1), class)
  ELSE s

\* String.prototype.trim
Trim(s) == DropLastWhile(DropWhile(s, Whitespace), Whitespace)

\* the padded, normalized string the trigrams are cut from
Normalize(srcValue) ==
  LET clean == Trim(ReplaceRuns(ReplaceRuns(srcValue, Punctuation), Whitespace))
  IN  <<" ">> \o [i \in DOMAIN clean |-> toLowerCase(clean[i])] \o <<" ">>

\* a faulty variant of getTrigrams: the loop stops one trigram early
getTrigramsShort(inputText) ==
  IF inputText = <<>> THEN <<>>
  ELSE LET normalized == Normalize(inputText)
       IN  IF Len(normalized) < 3 THEN <<>>
           ELSE [i \in 1..(Len(normalized) - 3) |-> SubSeq(normalized, i, i + 2)]

\* getTrigrams hands the text to Tokenizer.getNGrams(inputText, 3, true) of a
\* package outside the repository; the trigrams are cut as the earlier body of
\* the function cut them
getTrigrams(inputText) ==
  IF inputText = <<>> THEN <<>>
  ELSE LET normalized == Normalize(inputText)
       IN  IF Len(normalized) < 3 THEN <<>>
           ELSE [i \in 1..(Len(normalized) - 2) |-> SubSeq(normalized, i, i + 2)]

\* a faulty variant of InsertBySecond: an element goes before its equals
RECURSIVE InsertBySecondBeforeEquals(_, _)
InsertBySecondBeforeEquals(sorted, x) ==
  IF sorted = <<>> THEN <<x>>
  ELSE IF x[2] <= Head(sorted)[2] THEN <<x>> \o sorted
       ELSE <<Head(sorted)>> \o InsertBySecondBeforeEquals(Tail(sorted), x)

\* Array.prototype.sort((a, b) => a[1] - b[1]) is stable: each element is
\* inserted behind the elements that do not compare greater
RECURSIVE InsertBySecond(_, _)
InsertBySecond(sorted, x) ==
  IF sorted = <<>> THEN <<x>>
  ELSE IF x[2] < Head(sorted)[2] THEN <<x>> \o sorted
       ELSE <<Head(sorted)>> \o InsertBySecond(Tail(sorted), x)

\* a faulty variant of SortBySecond: the distances are left in table order
SortBySecondSkipped(s) == s

RECURSIVE SortBySecond(_)
SortBySecond(s) ==
  IF s = <<>> THEN <<>>
  ELSE InsertBySecond(SortBySecond(SubSeq(s, 1, Len(s) - 1)), s[Len(s)])

\* the distinct elements of s in order of first occurrence
Distinct(s) ==
  LET First(x) == CHOOSE i \in DOMAIN s : s[i] = x /\ \A j \in 1..(i - 1) : s[j] # x
      found == Range(s)
      RECURSIVE Listed(_)
      Listed(left) ==
        IF left = {} THEN <<>>
        ELSE LET x == CHOOSE y \in left : TRUE
             IN  <<<<x, First(x)>>>> \o Listed(left \ {x})
      ordered == SortBySecond(Listed(found))
  IN  [k \in DOMAIN ordered |-> ordered[k][1]]

\* a faulty variant of asTuples: the tuples are left in insertion order
asTuplesUnsorted(inputText) ==
  LET trigrams == getTrigrams(inputText)
      keys == Distinct(trigrams)
  IN  [k \in DOMAIN keys |->
         <<keys[k], Cardinality({i \in DOMAIN trigrams : trigrams[i] = keys[k]})>>]

asTuples(inputText) ==
  LET trigrams == getTrigrams(inputText)
      keys == Distinct(trigrams)
      tuples == [k \in DOMAIN keys |->
                   <<keys[k], Cardinality({i \in DOMAIN trigrams : trigrams[i] = keys[k]})>>]
  IN  SortBySecond(tuples)

(***************************************************************************)
(* Distances                                                               *)
(***************************************************************************)
\* model.reduce((acc, trigram, i) => { acc[trigram] = i; ... }, {})
IndexOfModel(model) ==
  [t \in Range(model) |->
     CHOOSE i \in 0..(Len(model) - 1) :
       /\ model[i + 1] = t
       /\ \A j \in (i + 1)..(Len(model) - 1) : model[j + 1] # t]

RECURSIVE SumSeq(_)
SumSeq(s) == IF s = <<>> THEN 0 ELSE Head(s) + SumSeq(Tail(s))

\* a faulty variant of getDistance: the rank difference is not halved
getDistanceNotHalved(trigrams, model, modelIndex) ==
  LET index == IF IsSome(modelIndex) THEN Get(modelIndex) ELSE IndexOfModel(model)
      Term(t) == IF t[1] \notin DOMAIN index
                 THEN 2 * MISSING_TRIGRAM_PENALTY
                 ELSE 2 * Abs(t[2] - index[t[1]])
  IN  SumSeq([k \in DOMAIN trigrams |-> Term(trigrams[k])])

\* a faulty variant of getDistance: the penalty is paid for every occurrence
getDistancePenaltyPerOccurrence(trigrams, model, modelIndex) ==
  LET index == IF IsSome(modelIndex) THEN Get(modelIndex) ELSE IndexOfModel(model)
      Term(t) == IF t[1] \notin DOMAIN index
                 THEN 2 * MISSING_TRIGRAM_PENALTY * t[2]
                 ELSE Abs(t[2] - index[t[1]])
  IN  SumSeq([k \in DOMAIN trigrams |-> Term(trigrams[k])])

\* a faulty variant of getDistance: without an index the rank is looked up as
\* model.indexOf(trigram), the first position
getDistanceByIndexOf(trigrams, model, modelIndex) ==
  LET FirstIndex == [t \in Range(model) |->
                       CHOOSE i \in 0..(Len(model) - 1) :
                         /\ model[i + 1] = t
                         /\ \A j \in 0..(i - 1) : model[j + 1] # t]
      index == IF IsSome(modelIndex) THEN Get(modelIndex) ELSE FirstIndex
      Term(t) == IF t[1] \notin DOMAIN index
                 THEN 2 * MISSING_TRIGRAM_PENALTY
                 ELSE Abs(t[2] - index[t[1]])
  IN  SumSeq([k \in DOMAIN trigrams |-> Term(trigrams[k])])

\* the distance in half units; modelIndex is None or Some(index)
getDistance(trigrams, model, modelIndex) ==
  LET index == IF IsSome(modelIndex) THEN Get(modelIndex) ELSE IndexOfModel(model)
      Term(t) == IF t[1] \notin DOMAIN index
                 THEN 2 * MISSING_TRIGRAM_PENALTY
                 ELSE Abs(t[2] - index[t[1]])
  IN  SumSeq([k \in DOMAIN trigrams |-> Term(trigrams[k])])

\* a faulty variant of filterLanguages: an allow-listed language is kept even
\* when the deny list names it
filterLanguagesAllowWins(languages, allowList, denyList) ==
  IF Len(allowList) = 0 /\ Len(denyList) = 0 THEN languages
  ELSE LET Keep(row) == \/ (Len(allowList) > 0 /\ Includes(allowList, row[1]))
                        \/ (Len(allowList) = 0 /\ ~Includes(denyList, row[1]))
       IN  SelectSeq(languages, Keep)

filterLanguages(languages, allowList, denyList) ==
  IF Len(allowList) = 0 /\ Len(denyList) = 0 THEN languages
  ELSE LET Keep(row) == /\ (Len(allowList) = 0 \/ Includes(allowList, row[1]))
                        /\ ~Includes(denyList, row[1])
       IN  SelectSeq(languages, Keep)

\* options is a settings record; modelIndexesForScript is None or Some(lang -> index)
getDistances(trigrams, srcLanguages, options, modelIndexesForScript) ==
  LET allowList == OrElse(options.allowList, <<>>)
      denyList == OrElse(options.denyList, <<>>)
      filteredLanguages == filterLanguages(srcLanguages, allowList, denyList)
      IndexFor(lang) ==
        IF IsSome(modelIndexesForScript) /\ lang \in DOMAIN Get(modelIndexesForScript)
        THEN Some(Get(modelIndexesForScript)[lang])
        ELSE None
      distances == [k \in DOMAIN filteredLanguages |->
                      <<filteredLanguages[k][1],
                        getDistance(trigrams, filteredLanguages[k][2],
                                    IndexFor(filteredLanguages[k][1]))>>]
  IN  SortBySecond(distances)

(***************************************************************************)
(* Script classification                                                   *)
(***************************************************************************)
\* expression is the class of characters the pattern matches
getOccurrence(inputText, expression) ==
  IF Len(inputText) # 0
  THEN Frac(MatchCount(inputText, expression), Len(inputText))
  ELSE Zero

\* a faulty variant of isLatin: half of the letters is enough
isLatinFromHalf(inputText) ==
  IF inputText = <<>> THEN FALSE
  ELSE LET latinMatches == MatchCount(inputText, scripts("Latin"))
           letterMatches == MatchCount(inputText, Letters)
       IN  IF letterMatches = 0 THEN FALSE
           ELSE 2 * latinMatches >= letterMatches

isLatin(inputText) ==
  IF inputText = <<>> THEN FALSE
  ELSE LET latinMatches == MatchCount(inputText, scripts("Latin"))
           letterMatches == MatchCount(inputText, Letters)
       IN  IF letterMatches = 0 THEN FALSE
           ELSE 2 * latinMatches > letterMatches

\* a faulty variant of ScanScripts: a later script with an equal count wins
RECURSIVE ScanScriptsLastWins(_, _, _, _)
ScanScriptsLastWins(inputText, k, topScript, topCount) ==
  IF k > Len(scriptKeys) THEN <<topScript, topCount>>
  ELSE LET count == getOccurrence(inputText, scripts(scriptKeys[k]))
       IN  IF FLeq(topCount, count)
           THEN IF count = One THEN <<scriptKeys[k], count>>
                ELSE ScanScriptsLastWins(inputText, k + 1, scriptKeys[k], count)
           ELSE ScanScriptsLastWins(inputText, k + 1, topScript, topCount)

\* the loop over scriptKeys from position k on, with the running maximum
RECURSIVE ScanScripts(_, _, _, _)
ScanScripts(inputText, k, topScript, topCount) ==
  IF k > Len(scriptKeys) THEN <<topScript, topCount>>
  ELSE LET count == getOccurrence(inputText, scripts(scriptKeys[k]))
       IN  IF FLess(topCount, count)
           THEN IF count = One THEN <<scriptKeys[k], count>>
                ELSE ScanScripts(inputText, k + 1, scriptKeys[k], count)
           ELSE ScanScripts(inputText, k + 1, topScript, topCount)

getTopScript(inputText) ==
  IF Len(inputText) < 3 THEN <<"und", One>>
  ELSE IF isLatin(inputText) THEN <<"Latin", One>>
  ELSE ScanScripts(inputText, 1, "", <<-1, 1>>)

(***************************************************************************)
(* The static trigram index                                                *)
(***************************************************************************)
\* the value of LanguageGuesser.modelIndexes before the first build: {}
NoIndexes == <<>>

\* the table a build fills in: modelIndexes[script][lang][trigram] = index
BuiltIndexes ==
  [script \in DOMAIN ngramsData |->
     [lang \in Range(Keys(ngramsData[script])) |->
        IndexOfModel(ModelOf(ngramsData[script], lang))]]

\* a faulty variant of buildModelIndexes: without the guard each call builds on
\* the ranks of the previous build
buildModelIndexesAgain(indexes) ==
  IF DOMAIN indexes # {}
  THEN [script \in DOMAIN indexes |->
          [lang \in DOMAIN indexes[script] |->
             [t \in DOMAIN indexes[script][lang] |-> indexes[script][lang][t] + 1]]]
  ELSE BuiltIndexes

\* the value of LanguageGuesser.modelIndexes after buildModelIndexes()
buildModelIndexes(indexes) ==
  IF DOMAIN indexes # {} THEN indexes ELSE BuiltIndexes

(***************************************************************************)
(* detectAll                                                               *)
(***************************************************************************)
\* a call either returns a value or raises a TypeError
Returned(v) == [kind |-> "returned", value |-> v]

Threw == [kind |-> "threw", value |-> <<>>]

\* a call that never returns
Diverged == [kind |-> "diverged", value |-> <<>>]

und == << <<"und", One>> >>

\* a faulty variant of Scored: the last distance is taken for the minimum
ScoredFromLast(distances, textLength) ==
  LET minDistance == distances[Len(distances)][2]
      maxDistance == 2 * textLength * MISSING_TRIGRAM_PENALTY - minDistance
      denom == Max2(2, maxDistance)
  IN  [k \in DOMAIN distances |->
         <<distances[k][1], Frac(denom - (distances[k][2] - minDistance), denom)>>]

\* a faulty variant of Scored: 1 + (d - minDistance) / denom
ScoredSignSlip(distances, textLength) ==
  LET minDistance == distances[1][2]
      maxDistance == 2 * textLength * MISSING_TRIGRAM_PENALTY - minDistance
      denom == Max2(2, maxDistance)
  IN  [k \in DOMAIN distances |->
         <<distances[k][1], Frac(denom + (distances[k][2] - minDistance), denom)>>]

\* the scores of the trigram path from the sorted distances (half units)
Scored(distances, textLength) ==
  LET minDistance == distances[1][2]
      maxDistance == 2 * textLength * MISSING_TRIGRAM_PENALTY - minDistance
      denom == Max2(2, maxDistance)
  IN  [k \in DOMAIN distances |->
         <<distances[k][1], Frac(denom - (distances[k][2] - minDistance), denom)>>]

\* a faulty variant of ConfidenceFloor: the comparison is turned around
ConfidenceFloorInverted(scored) ==
  IF Len(scored) = 0 \/ ~FLess(scored[1][2], Half) THEN Returned(und) ELSE Returned(scored)

\* if (scored.length === 0 || scored[0][1] < 0.5) return und(); return scored
ConfidenceFloor(scored) ==
  IF Len(scored) = 0 \/ FLess(scored[1][2], Half) THEN Returned(und) ELSE Returned(scored)

\* the trigram path once the distances are known
DetectTrigrams(scriptId, textLength, distances) ==
  IF Len(distances) > 0 /\ distances[1][1] = "und"
  THEN Returned(<< <<scriptId, One>> >>)
  ELSE IF Len(distances) = 0
       \* distances[0] is undefined: reading distances[0][1] raises a TypeError
       THEN Threw
       ELSE ConfidenceFloor(Scored(distances, textLength))

\* a faulty variant of DetectWithoutModel: the "jpn" rule comes first
DetectWithoutModelJapaneseFirst(scriptId, settings) ==
  IF IsSome(settings.allowList)
  THEN IF scriptId = "cmn" /\ Includes(Get(settings.allowList), "jpn")
       THEN Returned(<< <<"jpn", One>> >>)
       ELSE IF Includes(Get(settings.allowList), scriptId)
            THEN Returned(<< <<scriptId, One>> >>)
            ELSE Returned(und)
  ELSE Returned(<< <<scriptId, One>> >>)

\* a script identified without a model
DetectWithoutModel(scriptId, settings) ==
  IF IsSome(settings.allowList)
  THEN IF Includes(Get(settings.allowList), scriptId)
       THEN Returned(<< <<scriptId, One>> >>)
       ELSE IF scriptId = "cmn" /\ Includes(Get(settings.allowList), "jpn")
            THEN Returned(<< <<"jpn", One>> >>)
            ELSE Returned(und)
  ELSE Returned(<< <<scriptId, One>> >>)

\* detectAll once the script of the truncated text is known
DetectScript(text, settings, built, scriptId, scriptOccurrence) ==
  IF scriptId \notin DOMAIN ngramsData /\ FLess(Half, scriptOccurrence)
  THEN DetectWithoutModel(scriptId, settings)
  ELSE IF scriptId \in DOMAIN ngramsData
       THEN DetectTrigrams(scriptId, Len(text),
              getDistances(asTuples(text), ngramsData[scriptId], settings,
                           IF scriptId \in DOMAIN built THEN Some(built[scriptId])
                           ELSE None))
       ELSE Returned(und)

\* detectAll behind the length guard: text is the truncated input, built the
\* static index after buildModelIndexes(), top the result of getTopScript
DetectText(text, settings, built, top) ==
  [result |-> DetectScript(text, settings, built, top[1], top[2]),
   modelIndexes |-> built]

\* a faulty variant of detectAll: the length guard is off by one
detectAllShortByOne(inputText, settings, indexes) ==
  IF inputText = <<>> \/ Len(inputText) < OrElse(settings.minLength, DefaultMinLength) - 1
  THEN [result |-> Returned(und), modelIndexes |-> indexes]
  ELSE DetectText(Substring(inputText, 0, MaxAnalyzed), settings,
                  buildModelIndexes(indexes),
                  getTopScript(Substring(inputText, 0, MaxAnalyzed)))

\* a faulty variant of detectAll: the whole text is analyzed
detectAllWhole(inputText, settings, indexes) ==
  IF inputText = <<>> \/ Len(inputText) < OrElse(settings.minLength, DefaultMinLength)
  THEN [result |-> Returned(und), modelIndexes |-> indexes]
  ELSE DetectText(inputText, settings, buildModelIndexes(indexes),
                  getTopScript(inputText))

\* the outcome of detectAll(inputText, settings) when the static index is
\* `indexes` at the call, and the static index it leaves
detectAll(inputText, settings, indexes) ==
  IF inputText = <<>> \/ Len(inputText) < OrElse(settings.minLength, DefaultMinLength)
  THEN [result |-> Returned(und), modelIndexes |-> indexes]
  ELSE DetectText(Substring(inputText, 0, MaxAnalyzed), settings,
                  buildModelIndexes(indexes),
                  getTopScript(Substring(inputText, 0, MaxAnalyzed)))

(***************************************************************************)
(* A LanguageGuesser instance                                              *)
(***************************************************************************)
LangData(row) == [alpha2 |-> row[1], alpha3 |-> row[2], name |-> row[3]]

\* the instance fields after buildData(): the last row of a code wins
buildData ==
  LET LastRow(col, code) ==
        CHOOSE i \in DOMAIN languageDataRaw :
          /\ languageDataRaw[i][col] = code
          /\ \A j \in (i + 1)..Len(languageDataRaw) : languageDataRaw[j][col] # code
  IN  [languagesAlpha3 |->
         [code \in {languageDataRaw[i][2] : i \in DOMAIN languageDataRaw} |->
            LangData(languageDataRaw[LastRow(2, code)])],
       languagesAlpha2 |->
         [code \in {languageDataRaw[i][1] : i \in DOMAIN languageDataRaw} |->
            LangData(languageDataRaw[LastRow(1, code)])]]

\* a faulty variant of transformCodeList: alpha-2 codes are not looked up
transformCodeListKeepThree(self, list) ==
  LET ThreeLong(code) == Len(code) = 3
  IN  SelectSeq(list, ThreeLong)

\* list.map(code => code.length === 3 ? code : languagesAlpha2[code]?.alpha3 || "")
\*     .filter(Boolean)
transformCodeList(self, list) ==
  LET Mapped(code) ==
        IF Len(code) = 3 THEN code
        ELSE IF code \in DOMAIN self.languagesAlpha2
             THEN self.languagesAlpha2[code].alpha3
             ELSE ""
      NonEmpty(code) == code # ""
  IN  SelectSeq([i \in DOMAIN list |-> Mapped(list[i])], NonEmpty)

\* a faulty variant of Slice0: one element too many
Slice0OneMore(s, end) == SubSeq(s, 1, Min2(Max2(end, 0) + 1, Len(s)))

\* Array.prototype.slice(0, end)
Slice0(s, end) ==
  LET e == IF end < 0 THEN Max2(Len(s) + end, 0) ELSE Min2(end, Len(s))
  IN  SubSeq(s, 1, e)

UndEntry == [alpha3 |-> "und", alpha2 |-> "", language |-> "Undetermined", score |-> Zero]

\* the candidates of detectAll that the registry knows, as result entries
Resolve(self, scores) ==
  LET Known(c) == c[1] \in DOMAIN self.languagesAlpha3
      known == SelectSeq(scores, Known)
  IN  [k \in DOMAIN known |->
         [alpha3 |-> self.languagesAlpha3[known[k][1]].alpha3,
          alpha2 |-> self.languagesAlpha3[known[k][1]].alpha2,
          language |-> self.languagesAlpha3[known[k][1]].name,
          score |-> known[k][2]]]

\* the settings guess hands to detectAll
GuessOptions(self, allowList, denyList) ==
  [minLength |-> None,
   allowList |-> IF Len(allowList) > 0 THEN Some(transformCodeList(self, allowList))
                 ELSE None,
   denyList |-> IF Len(denyList) > 0 THEN Some(transformCodeList(self, denyList))
                ELSE None]

\* a faulty variant of GuessResults: no undetermined entry for an empty list
GuessResultsNoDefault(results, limit) == Returned(Slice0(results, limit))

\* if (results.length === 0) return [und entry]; return results.slice(0, limit)
GuessResults(results, limit) ==
  IF Len(results) = 0 THEN Returned(<<UndEntry>>) ELSE Returned(Slice0(results, limit))

\* guess once detectAll is done: det is its outcome and the index it left
GuessFrom(self, limit, det) ==
  [result |-> IF det.result.kind = "threw" THEN Threw
              ELSE GuessResults(Resolve(self, det.result.value), limit),
   modelIndexes |-> det.modelIndexes]

guess(self, utterance, allowList, limit, denyList, indexes) ==
  GuessFrom(self, limit,
            detectAll(utterance, GuessOptions(self, allowList, denyList), indexes))

\* this.guess(utterance, allowList, 1)[0] || und entry
FirstOrUnd(g) ==
  [result |-> IF g.result.kind = "threw" THEN Threw
              ELSE IF Len(g.result.value) > 0 THEN Returned(g.result.value[1])
              ELSE Returned(UndEntry),
   modelIndexes |-> g.modelIndexes]

guessBest(self, utterance, allowList, indexes) ==
  FirstOrUnd(guess(self, utterance, allowList, 1, <<>>, indexes))

(***************************************************************************)
(* guessMixed                                                              *)
(***************************************************************************)
\* the characters of [.!?]
SentenceEnd == {"."}

\* utterance.split(/(?<=[.!?])\s+/): the pieces from position i on, `piece`
\* being the piece under construction
RECURSIVE SplitSentences(_, _, _)
SplitSentences(s, i, piece) ==
  IF i > Len(s) THEN <<piece>>
  ELSE IF s[i] \in Whitespace /\ i > 1 /\ s[i - 1] \in SentenceEnd
       THEN LET rest == DropWhile(SubSeq(s, i, Len(s)), Whitespace)
            IN  <<piece>> \o SplitSentences(s, Len(s) - Len(rest) + 1, <<>>)
       ELSE SplitSentences(s, i + 1, Append(piece, s[i]))

\* for (let i = 0; i < longSegment.length; i += stepSize) push(substring(i, i + windowSize))
RECURSIVE Windows(_, _, _, _)
Windows(longSegment, i, windowSize, stepSize) ==
  IF i < Len(longSegment)
  THEN <<Substring(longSegment, i, i + windowSize)>>
         \o Windows(longSegment, i + stepSize, windowSize, stepSize)
  ELSE <<>>

\* a faulty variant of KeepLong: a piece of length 10 is dropped
KeepLongerOnly(trimmed) ==
  LET LongEnough(p) == Len(p) > MinSegmentLength
  IN  SelectSeq(trimmed, LongEnough)

\* utterance.split(...).map(s => s.trim()).filter(s => s.length >= 10)
KeepLong(trimmed) ==
  LET LongEnough(p) == Len(p) >= MinSegmentLength
  IN  SelectSeq(trimmed, LongEnough)

TrimAll(pieces) == [k \in DOMAIN pieces |-> Trim(pieces[k])]

KeptSentences(utterance) == KeepLong(TrimAll(SplitSentences(utterance, 1, <<>>)))

\* segments.length === 1 && segments[0].length > 40
UsesWindows(kept) == Len(kept) = 1 /\ Len(kept[1]) > LongSegmentLength

\* the segments guessMixed analyzes, from the sentences kept
Segments(utterance, kept, windowSize, stepSize) ==
  IF Len(kept) = 0 THEN <<utterance>>
  ELSE IF UsesWindows(kept) THEN Windows(kept[1], 0, windowSize, stepSize)
  ELSE kept

\* the (candidate, weight) pairs of one segment
Pairs(candidates, weight) ==
  [c \in DOMAIN candidates |-> [entry |-> candidates[c], weight |-> weight]]

\* the pairs of a segment followed by those of the later segments
Joined(here, rest) ==
  [threw |-> rest.threw, pairs |-> here \o rest.pairs, modelIndexes |-> rest.modelIndexes]

\* segments.forEach(segment => guess(segment, allowList, 3) ...): the
\* (candidate, weight) pairs from segment k on, the static index left behind,
\* and whether a guess raised; g is the guess of segment k
RECURSIVE GuessSegments(_, _, _, _, _)
AfterGuess(self, segments, k, allowList, g) ==
  IF g.result.kind = "threw"
  THEN [threw |-> TRUE, pairs |-> <<>>, modelIndexes |-> g.modelIndexes]
  ELSE Joined(Pairs(g.result.value, Len(segments[k])),
              GuessSegments(self, segments, k + 1, allowList, g.modelIndexes))

GuessSegments(self, segments, k, allowList, indexes) ==
  IF k > Len(segments) THEN [threw |-> FALSE, pairs |-> <<>>, modelIndexes |-> indexes]
  ELSE AfterGuess(self, segments, k, allowList,
                  guess(self, segments[k], allowList, SegmentCandidates, <<>>, indexes))

RECURSIVE QSum(_)
QSum(s) == IF s = <<>> THEN QZero ELSE QAdd(Head(s), QSum(Tail(s)))

\* a faulty variant of Weighted: the score is not multiplied by the weight
Unweighted(p) == QOf(p.entry.score[1], p.entry.score[2])

\* score * weight of a (candidate, weight) pair
Weighted(p) == QMulNat(QOf(p.entry.score[1], p.entry.score[2]), p.weight)

\* the pairs of one alpha3 code
PairsOf(pairs, code) ==
  LET Mine(p) == p.entry.alpha3 = code
  IN  SelectSeq(pairs, Mine)

\* totalScore / totalWeight, 0 when totalWeight is 0
Average(totalScore, totalWeight) ==
  IF totalWeight # 0 THEN QDivNat(totalScore, totalWeight) ELSE QZero

\* the aggregate of the pairs of one code; the score is an exact rational
AggregateEntry(mine) ==
  [alpha2 |-> mine[1].entry.alpha2,
   alpha3 |-> mine[1].entry.alpha3,
   language |-> mine[1].entry.language,
   score |-> Average(QSum([k \in DOMAIN mine |-> Weighted(mine[k])]),
                     SumSeq([k \in DOMAIN mine |-> mine[k].weight]))]

AggregateCodes(pairs, codes) ==
  [k \in DOMAIN codes |-> AggregateEntry(PairsOf(pairs, codes[k]))]

\* the aggregated entries in insertion order of their alpha3 code
Aggregate(pairs) ==
  AggregateCodes(pairs, Distinct([k \in DOMAIN pairs |-> pairs[k].entry.alpha3]))

\* results.sort((a, b) => b.score - a.score), a stable sort
RECURSIVE InsertByScoreDesc(_, _)
InsertByScoreDesc(sorted, x) ==
  IF sorted = <<>> THEN <<x>>
  ELSE IF QLess(Head(sorted).score, x.score) THEN <<x>> \o sorted
       ELSE <<Head(sorted)>> \o InsertByScoreDesc(Tail(sorted), x)

\* a faulty variant of SortByScoreDesc: the aggregates stay in insertion order
SortByScoreDescSkipped(s) == s

RECURSIVE SortByScoreDesc(_)
SortByScoreDesc(s) ==
  IF s = <<>> THEN <<>>
  ELSE InsertByScoreDesc(SortByScoreDesc(SubSeq(s, 1, Len(s) - 1)), s[Len(s)])

\* guessMixed once every segment is guessed
MixedResult(run, limit) ==
  [result |-> IF run.threw THEN Threw
              ELSE Returned(Slice0(SortByScoreDesc(Aggregate(run.pairs)), limit)),
   modelIndexes |-> run.modelIndexes]

\* guessMixed once the sentences are split
MixedFrom(self, utterance, allowList, limit, windowSize, stepSize, indexes, kept) ==
  IF UsesWindows(kept) /\ stepSize <= 0
  \* i never reaches longSegment.length: the loop does not end
  THEN [result |-> Diverged, modelIndexes |-> indexes]
  ELSE MixedResult(GuessSegments(self, Segments(utterance, kept, windowSize, stepSize),
                                 1, allowList, indexes),
                   limit)

guessMixed(self, utterance, allowList, limit, segmentationOptions, indexes) ==
  MixedFrom(self, utterance, allowList, limit,
            OrElse(segmentationOptions.windowSize, DefaultWindowSize),
            OrElse(segmentationOptions.stepSize, DefaultStepSize),
            indexes, KeptSentences(utterance))

\* totalScore after the first k pairs of one code, in the doubles of the code:
\* every product score * weight and every sum totalScore += ... is rounded
RECURSIVE DoubleTotalScore(_, _)
DoubleTotalScore(mine, k) ==
  LET Times(x, w) == RoundToDouble(BigMul(x.num, BigOf(w)), 1, x.exp)
      PlusAt(x, y, e) ==
        RoundToDouble(BigAdd(BigMul(x.num, Pow2(e - x.exp)),
                             BigMul(y.num, Pow2(e - y.exp))), 1, e)
      Plus(x, y) == PlusAt(x, y, Max2(x.exp, y.exp))
  IN  IF k = 0 THEN RoundToDouble(<<>>, 1, 0)
      ELSE Plus(DoubleTotalScore(mine, k - 1),
                Times(ScoreAsDouble(mine[k].entry.score), mine[k].weight))

\* a faulty variant of DoubleAverage: totalScore is divided by the number of
\* segments, not by their total length
DoubleAverageByCount(mine) ==
  LET Quotient(totalScore) == RoundToDouble(totalScore.num, Len(mine), totalScore.exp)
  IN  Quotient(DoubleTotalScore(mine, Len(mine)))

\* totalScore / totalWeight of the pairs of one code in the doubles of the code;
\* the weights are integers and their sum is exact
DoubleAverage(mine) ==
  LET Quotient(totalScore, totalWeight) ==
        IF totalWeight # 0
        THEN RoundToDouble(totalScore.num, totalWeight, totalScore.exp)
        ELSE RoundToDouble(<<>>, 1, 0)
  IN  Quotient(DoubleTotalScore(mine, Len(mine)),
               SumSeq([k \in DOMAIN mine |-> mine[k].weight]))

\* the aggregated entries in insertion order of their alpha3 code, their scores
\* being the doubles of the code
DoubleAggregate(pairs) ==
  LET codes == Distinct([k \in DOMAIN pairs |-> pairs[k].entry.alpha3])
      Entry(mine) ==
        [alpha2 |-> mine[1].entry.alpha2,
         alpha3 |-> mine[1].entry.alpha3,
         language |-> mine[1].entry.language,
         score |-> DoubleAverage(mine)]
  IN  [k \in DOMAIN codes |-> Entry(PairsOf(pairs, codes[k]))]

\* guessMixed once every segment is guessed, its scores in the doubles of the code
MixedResultInDoubles(run, limit) ==
  [result |-> IF run.threw THEN Threw
              ELSE Returned(Slice0(SortByScoreDesc(DoubleAggregate(run.pairs)), limit)),
   modelIndexes |-> run.modelIndexes]

\* guessMixed with its scores in the doubles of the code, for step sizes above 0
guessMixedInDoubles(self, utterance, allowList, limit, segmentationOptions, indexes) ==
  MixedResultInDoubles(
    GuessSegments(self,
                  Segments(utterance, KeptSentences(utterance),
                           OrElse(segmentationOptions.windowSize, DefaultWindowSize),
                           OrElse(segmentationOptions.stepSize, DefaultStepSize)),
                  1, allowList, indexes),
    limit)

(***************************************************************************)
(* Inputs                                                                  *)
(***************************************************************************)
\* the text of length n that repeats the unit u
Cycle(u, n) == [i \in 1..n |-> u[((i - 1) % Len(u)) + 1]]

\* texts repeat one character or a pair of characters
Units ==
  {<<c>> : c \in Alphabet}
    \cup {<<c, d>> : c \in Alphabet \ LatinUpper, d \in Alphabet \ LatinUpper}
    \cup {<<"A", "b">>}

TextLens == {0, 2, DefaultMinLength - 1, MaxTextLen}

Texts == {Cycle(u, n) : u \in Units, n \in TextLens}

\* the lists of at most maxLen distinct codes, in the order of `codes`
RECURSIVE PickCodes(_, _, _)
PickCodes(codes, chosen, i) ==
  IF i > Len(codes) THEN <<>>
  ELSE IF i \in chosen THEN <<codes[i]>> \o PickCodes(codes, chosen, i + 1)
       ELSE PickCodes(codes, chosen, i + 1)

Lists(codes, maxLen) ==
  {PickCodes(codes, chosen, 1) :
     chosen \in {c \in SUBSET DOMAIN codes : Cardinality(c) <= maxLen}}

Optional(S) == {None} \cup {Some(x) : x \in S}

\* alpha-3 codes for the settings of detectAll
AllowCodes3 == <<"eng", "jpn", "cmn">>

DenyCodes3 == <<"eng", "tha">>

\* codes for the lists of guess: alpha-3, alpha-2 and an unknown code
AllowCodes == <<"eng", "es", "tha", "xx">>

DenyCodes == <<"eng", "th">>

Settings ==
  [minLength : {None, Some(2)},
   allowList : Optional(Lists(AllowCodes3, MaxListLen)),
   denyList : Optional(Lists(DenyCodes3, MaxListLen))]

Limits == {0, 1, DefaultLimit}

\* texts that reach or pass the analyzed length, with tails of other characters
LongPrefixUnits == {<<"a", "b">>, <<"a">>}

Tails == {<<>>, <<"b", "b", "b">>, <<"CYR", "CYR", "CYR">>}

AnalyzedTexts ==
  {Cycle(u, n) \o tail :
     u \in LongPrefixUnits, n \in {MaxAnalyzed - 1, MaxAnalyzed}, tail \in Tails}

AnalyzedSettings ==
  [minLength : {None}, allowList : {None, Some(<<"eng">>)}, denyList : {None}]

DetectAllInputs ==
  [op : {"detectAll"}, text : Texts, settings : Settings]
    \cup [op : {"detectAll"}, text : AnalyzedTexts, settings : AnalyzedSettings]

GuessInputs ==
  [op : {"guess"}, text : Texts, allowList : Lists(AllowCodes, MaxListLen),
   limit : Limits, denyList : Lists(DenyCodes, MaxListLen)]

GuessBestInputs ==
  [op : {"guessBest"}, text : Texts, allowList : Lists(AllowCodes, MaxListLen)]

\* utterances of two sentences and utterances of one long segment
SentenceUnits == {<<"a">>, <<"b", "a">>, <<"a", " ">>, <<"CYR">>, <<"THAI">>}

TwoSentences ==
  {Cycle(u, MinSegmentLength) \o <<".", " ">> \o Cycle(v, MaxTextLen) :
     u \in SentenceUnits, v \in SentenceUnits}

LongTexts == {Cycle(u, LongSegmentLength + 5) : u \in SentenceUnits}

NoOptions == [windowSize |-> None, stepSize |-> None]

SegmentationOptions == [windowSize : {None, Some(5)}, stepSize : {None, Some(0), Some(7)}]

GuessMixedInputs ==
  [op : {"guessMixed"}, text : Texts \cup TwoSentences,
   allowList : Lists(AllowCodes, MaxListLen), limit : {1, DefaultLimit},
   segmentationOptions : {NoOptions}]
    \cup
  [op : {"guessMixed"}, text : LongTexts,
   allowList : Lists(AllowCodes, MaxListLen), limit : {1, DefaultLimit},
   segmentationOptions : SegmentationOptions]

\* calls of guessMixed whose scores are followed in double arithmetic
GuessMixedInDoublesInputs ==
  [op : {"guessMixed in doubles"}, text : TwoSentences \cup LongTexts,
   allowList : {<<>>}, limit : {DefaultLimit}, segmentationOptions : {NoOptions}]

\* the sequences of length at most maxLen over the set S
Seqs(S, maxLen) == UNION {[1..n -> S] : n \in 0..maxLen}

\* language tables: rows of the Latin table, in its order
FilterCodes == {"eng", "spa", "fra"}

FilterLanguagesInputs ==
  [op : {"filterLanguages"}, languages : Lists(ngramsData.Latin, Len(ngramsData.Latin)),
   allowList : Seqs(FilterCodes, MaxListLen), denyList : Seqs(FilterCodes, MaxListLen)]

\* codes of every kind: alpha-3, known and unknown alpha-2, unknown 3-character, empty
TransformCodes == {"eng", "es", "pt", "xx", "zzz", ""}

TransformCodeListInputs ==
  [op : {"transformCodeList"}, list : Seqs(TransformCodes, MaxListLen)]

\* profiles handed to getDistance and getDistances: entries of a trigram and a
\* count, one of the trigrams in no model
ProfileTrigrams == {<<" ", "a", " ">>, <<"a", "b", "a">>, <<"HAN", "HAN", "HAN">>}

ProfileCounts == {1, 2, 7}

ProfileEntries == {<<t, c>> : t \in ProfileTrigrams, c \in ProfileCounts}

\* two models of the Latin table, the empty model and a model that has a
\* trigram twice
Models ==
  {ModelOf(ngramsData.Latin, "eng"), ModelOf(ngramsData.Latin, "spa"), <<>>,
   << <<"a", "b", "a">>, <<" ", "a", " ">>, <<"a", "b", "a">> >>}

GetDistanceInputs ==
  [op : {"getDistance"}, trigrams : Seqs(ProfileEntries, MaxProfileLen), model : Models,
   indexed : BOOLEAN]

GetDistancesInputs ==
  [op : {"getDistances"}, trigrams : Seqs(ProfileEntries, 1), script : DOMAIN ngramsData,
   options : [minLength : {None},
              allowList : Optional(Lists(<<"spa", "eng">>, MaxListLen)),
              denyList : Optional(Lists(<<"eng">>, MaxListLen))],
   indexed : BOOLEAN]

\* texts for getTopScript: the texts above, texts of three characters and
\* texts with Roman numerals
GetTopScriptInputs ==
  [op : {"getTopScript"},
   text : Texts
            \cup {Cycle(u, n) : u \in Units, n \in {3}}
            \cup {Cycle(<<"ROMAN">> \o u, n) : u \in Units \cup {<<>>}, n \in {3, MaxTextLen}}]

GetTrigramsInputs == [op : {"getTrigrams"}, text : Texts]

AsTuplesInputs == [op : {"asTuples"}, text : Texts]

Inputs ==
  DetectAllInputs \cup GuessInputs \cup GuessBestInputs \cup GuessMixedInputs
    \cup FilterLanguagesInputs \cup TransformCodeListInputs
    \cup GetTrigramsInputs \cup AsTuplesInputs
    \cup GetDistanceInputs \cup GetDistancesInputs
    \cup GetTopScriptInputs \cup GuessMixedInDoublesInputs

\* the texts of the calls made before the observed one
EarlierTexts == {Cycle(<<"a">>, 2), Cycle(<<"THAI">>, DefaultMinLength)}

(***************************************************************************)
(* The state machine: a process that constructs guessers and calls them.   *)
(* A run observes the calls of one operation with one list of arguments,   *)
(* `input`, among constructions and other calls that touch the static      *)
(* index.                                                                  *)
(***************************************************************************)
VARIABLES
  modelIndexes,  \* the static LanguageGuesser.modelIndexes
  guessers,      \* the field values of the instances constructed so far
  input,         \* the operation observed and its arguments
  calls,         \* "none" until the observed operation is called, then whether the
                 \* static index was still empty at its last call ("first") or
                 \* already built by an earlier construction or call ("later")
  result         \* the outcome of its last call

vars == <<modelIndexes, guessers, input, calls, result>>

Init ==
  /\ modelIndexes = NoIndexes
  /\ guessers = {}
  /\ input \in Inputs
  /\ calls = "none"
  /\ result = Returned(<<>>)

\* new LanguageGuesser()
New ==
  /\ guessers' = guessers \cup {buildData}
  /\ modelIndexes' = buildModelIndexes(modelIndexes)
  /\ UNCHANGED <<input, calls, result>>

\* an earlier LanguageGuesser.detectAll(text) whose result is not observed
EarlierDetectAll ==
  \E text \in EarlierTexts :
    /\ modelIndexes' =
         detectAll(text, [minLength |-> None, allowList |-> None, denyList |-> None],
                   modelIndexes).modelIndexes
    /\ UNCHANGED <<guessers, input, calls, result>>

\* an earlier guesser.guess(text) whose result is not observed
EarlierGuess ==
  \E self \in guessers, text \in EarlierTexts :
    /\ modelIndexes' = guess(self, text, <<>>, DefaultLimit, <<>>, modelIndexes).modelIndexes
    /\ UNCHANGED <<guessers, input, calls, result>>

\* the observed call ends with outcome r.result and leaves the index r.modelIndexes
Ends(r) ==
  /\ result' = r.result
  /\ modelIndexes' = r.modelIndexes
  /\ calls' = IF DOMAIN modelIndexes = {} THEN "first" ELSE "later"
  /\ UNCHANGED <<guessers, input>>

\* LanguageGuesser.detectAll(text, settings)
DetectAll ==
  /\ input.op = "detectAll"
  /\ Ends(detectAll(input.text, input.settings, modelIndexes))

\* guesser.guess(text, allowList, limit, denyList)
Guess ==
  /\ input.op = "guess"
  /\ \E self \in guessers :
       Ends(guess(self, input.text, input.allowList, input.limit, input.denyList,
                  modelIndexes))

\* guesser.guessBest(text, allowList)
GuessBest ==
  /\ input.op = "guessBest"
  /\ \E self \in guessers :
       Ends(guessBest(self, input.text, input.allowList, modelIndexes))

\* guesser.guessMixed(text, allowList, limit, segmentationOptions)
GuessMixed ==
  /\ input.op = "guessMixed"
  /\ \E self \in guessers :
       Ends(guessMixed(self, input.text, input.allowList, input.limit,
                       input.segmentationOptions, modelIndexes))

\* guesser.guessMixed(text, allowList, limit, segmentationOptions), the scores
\* being the doubles of the code
GuessMixedInDoubles ==
  /\ input.op = "guessMixed in doubles"
  /\ \E self \in guessers :
       Ends(guessMixedInDoubles(self, input.text, input.allowList, input.limit,
                                input.segmentationOptions, modelIndexes))

\* LanguageGuesser.filterLanguages(languages, allowList, denyList)
FilterLanguages ==
  /\ input.op = "filterLanguages"
  /\ Ends([result |-> Returned(filterLanguages(input.languages, input.allowList,
                                                input.denyList)),
           modelIndexes |-> modelIndexes])

\* guesser.transformCodeList(list)
TransformCodeList ==
  /\ input.op = "transformCodeList"
  /\ \E self \in guessers :
       Ends([result |-> Returned(transformCodeList(self, input.list)),
             modelIndexes |-> modelIndexes])

\* LanguageGuesser.getTrigrams(inputText)
GetTrigrams ==
  /\ input.op = "getTrigrams"
  /\ Ends([result |-> Returned(getTrigrams(input.text)), modelIndexes |-> modelIndexes])

\* LanguageGuesser.getTopScript(inputText)
GetTopScript ==
  /\ input.op = "getTopScript"
  /\ Ends([result |-> Returned(getTopScript(input.text)), modelIndexes |-> modelIndexes])

\* LanguageGuesser.asTuples(inputText)
AsTuples ==
  /\ input.op = "asTuples"
  /\ Ends([result |-> Returned(asTuples(input.text)), modelIndexes |-> modelIndexes])

\* LanguageGuesser.getDistance(trigrams, model, modelIndex)
GetDistance ==
  /\ input.op = "getDistance"
  /\ Ends([result |->
             Returned(getDistance(input.trigrams, input.model,
                                  IF input.indexed THEN Some(IndexOfModel(input.model))
                                  ELSE None)),
           modelIndexes |-> modelIndexes])

\* LanguageGuesser.getDistances(trigrams, srcLanguages, options, modelIndexesForScript)
GetDistances ==
  /\ input.op = "getDistances"
  /\ Ends([result |->
             Returned(getDistances(input.trigrams, ngramsData[input.script], input.options,
                                   IF input.indexed THEN Some(BuiltIndexes[input.script])
                                   ELSE None)),
           modelIndexes |-> modelIndexes])

\* an earlier guesser.guessMixed(text) whose result is not observed
EarlierGuessMixed ==
  \E self \in guessers, text \in EarlierTexts :
    /\ modelIndexes' =
         guessMixed(self, text, <<>>, DefaultLimit, NoOptions, modelIndexes).modelIndexes
    /\ UNCHANGED <<guessers, input, calls, result>>

Next ==
  \/ New
  \/ EarlierDetectAll
  \/ EarlierGuess
  \/ EarlierGuessMixed
  \/ DetectAll
  \/ Guess
  \/ GuessBest
  \/ GuessMixed
  \/ GuessMixedInDoubles
  \/ FilterLanguages
  \/ TransformCodeList
  \/ GetTrigrams
  \/ AsTuples
  \/ GetDistance
  \/ GetDistances
  \/ GetTopScript

Spec == Init /\ [][Next]_vars

(***************************************************************************)
(* The properties of the specification, stated over the observed call.     *)
(***************************************************************************)
\* the observed operation is op and it was called
Called(op) == calls # "none" /\ input.op = op

\* the entry the specification calls undetermined
Undetermined == [alpha3 |-> "und", alpha2 |-> "", language |-> "Undetermined", score |-> <<0, 1>>]

\* C1: for every text, allow-list and deny-list, detectAll, guess, guessBest and
\* guessMixed return a result instead of raising an error, also when the lists
\* leave no candidate language for the detected script.
C1_NeverRaises ==
  (calls # "none" /\ input.op \in {"detectAll", "guess", "guessBest", "guessMixed"})
    => result.kind # "threw"

\* C2: for every settings value and every text that is empty or shorter than
\* minLength (10 when absent), detectAll returns exactly [("und", 1)], whatever the
\* script and the allow/deny lists.
C2_ShortText ==
  \/ input.text = <<>>
  \/ Len(input.text) < (IF input.settings.minLength = {} THEN 10
                        ELSE Get(input.settings.minLength))

C2_ShortTextUndetermined ==
  (Called("detectAll") /\ C2_ShortText)
    => result = [kind |-> "returned", value |-> << <<"und", <<1, 1>> >> >>]

C2_Witness ==
  /\ Called("detectAll")
  /\ C2_ShortText
  /\ Len(input.text) = DefaultMinLength - 1
  /\ input.text[1] = "a"
  /\ input.settings.allowList = Some(<<"eng">>)

\* C3: whenever nothing matches (empty text, text shorter than 10 characters, or
\* a detection whose candidates do not resolve to a registry language), guess
\* returns exactly one entry: alpha3 "und", alpha2 "", language "Undetermined",
\* score 0.
C3_NoneResolves ==
  LET det == detectAll(input.text,
                       GuessOptions(buildData, input.allowList, input.denyList),
                       modelIndexes).result
  IN  /\ det.kind = "returned"
      /\ \A k \in DOMAIN det.value :
           \A i \in DOMAIN languageDataRaw : languageDataRaw[i][2] # det.value[k][1]

C3_NothingMatchesUndetermined ==
  (Called("guess") /\ (Len(input.text) < 10 \/ C3_NoneResolves))
    => result = [kind |-> "returned", value |-> <<Undetermined>>]

C3_Witness ==
  /\ Called("guess")
  /\ Len(input.text) >= 10
  /\ input.limit = 0
  /\ input.allowList # <<>>
  /\ C3_NoneResolves

\* C4: when guess is called with a non-empty allow-list, every entry it returns
\* other than the undetermined entry has an alpha3 code of the allow-list
\* normalized to alpha-3, also for lists whose codes are not in the registry.
C4_AllowListRespected ==
  (Called("guess") /\ input.allowList # <<>> /\ result.kind = "returned")
    => \A k \in DOMAIN result.value :
         \/ result.value[k].alpha3 = "und"
         \/ Includes(transformCodeList(buildData, input.allowList),
                     result.value[k].alpha3)

\* C5: a language code listed in the deny-list is never returned by detectAll or
\* guess, both when the detected script has n-gram models and when the script is
\* identified without a model.
C5_DenyListRespected ==
  /\ (Called("detectAll") /\ result.kind = "returned")
       => \A k \in DOMAIN result.value :
            ~Includes(OrElse(input.settings.denyList, <<>>), result.value[k][1])
  /\ (Called("guess") /\ result.kind = "returned")
       => \A k \in DOMAIN result.value :
            ~Includes(transformCodeList(buildData, input.denyList),
                      result.value[k].alpha3)

\* C6: every list returned by detectAll is sorted by non-increasing score: for
\* all positions i < j, score[i] >= score[j].
C6_SortedByScore ==
  (Called("detectAll") /\ result.kind = "returned")
    => \A i, j \in DOMAIN result.value :
         i < j => FLeq(result.value[j][2], result.value[i][2])

C6_Witness ==
  /\ Called("detectAll")
  /\ result.kind = "returned"
  /\ Len(result.value) >= 3
  /\ FLess(result.value[2][2], result.value[1][2])
  /\ FLess(result.value[3][2], result.value[2][2])

\* C7: every score in the list returned by detectAll lies in [0, 1]; for each
\* candidate, 0 <= distance - minDistance <= max(1, length(text) * 300 - minDistance).
\* Distances are in half units, so both sides of the bound are doubled.
C7_Text == Substring(input.text, 0, MaxAnalyzed)

C7_Script == getTopScript(C7_Text)[1]

C7_Distances ==
  IF ~C2_ShortText /\ C7_Script \in DOMAIN ngramsData
  THEN getDistances(asTuples(C7_Text), ngramsData[C7_Script], input.settings, None)
  ELSE <<>>

C7_DistancesBounded(distances) ==
  \A k \in DOMAIN distances :
    /\ 0 <= distances[k][2] - distances[1][2]
    /\ distances[k][2] - distances[1][2]
         <= Max2(2, 2 * Len(C7_Text) * 300 - distances[1][2])

C8_Kept(code) ==
  /\ input.allowList = <<>> \/ code \in Range(input.allowList)
  /\ code \notin Range(input.denyList)

C8_FilterLanguagesKeeps ==
  Called("filterLanguages")
    => /\ result.kind = "returned"
       /\ \A i \in DOMAIN input.languages :
            (\E j \in DOMAIN result.value : result.value[j] = input.languages[i])
              <=> C8_Kept(input.languages[i][1])
       /\ \A j \in DOMAIN result.value :
            \E i \in DOMAIN input.languages : result.value[j] = input.languages[i]
       /\ Len(result.value) <= Len(input.languages)
       /\ (input.allowList = <<>> /\ input.denyList = <<>>)
            => result.value = input.languages

C8_Witness ==
  /\ Called("filterLanguages")
  /\ Len(input.languages) = 3
  /\ \E code \in Range(input.allowList) \cap Range(input.denyList) :
       \E i \in DOMAIN input.languages : input.languages[i][1] = code
  /\ Len(result.value) = 1

\* C9: allow and deny lists are normalized to alpha-3 before matching: a known
\* alpha-2 code is replaced by its alpha-3 code, a 3-character code is kept, an
\* unknown non-3-character code is dropped, order preserved; hence guess gives the
\* same result when a language is named by its alpha-2 code as when it is named
\* by its alpha-3 code.
C9_IsAlpha2(code) == \E i \in DOMAIN languageDataRaw : languageDataRaw[i][1] = code

C9_Alpha3(code) ==
  languageDataRaw[CHOOSE i \in DOMAIN languageDataRaw : languageDataRaw[i][1] = code][2]

RECURSIVE C9_Normalized(_)
C9_Normalized(list) ==
  IF list = <<>> THEN <<>>
  ELSE IF Len(Head(list)) = 3 THEN <<Head(list)>> \o C9_Normalized(Tail(list))
  ELSE IF C9_IsAlpha2(Head(list))
       THEN <<C9_Alpha3(Head(list))>> \o C9_Normalized(Tail(list))
       ELSE C9_Normalized(Tail(list))

\* the list with every known alpha-2 code named by its alpha-3 code
C9_NamedByAlpha3(list) ==
  [i \in DOMAIN list |-> IF C9_IsAlpha2(list[i]) THEN C9_Alpha3(list[i]) ELSE list[i]]

C9_ListsNormalized ==
  /\ Called("transformCodeList")
       => result = [kind |-> "returned", value |-> C9_Normalized(input.list)]
  /\ Called("guess")
       => result = guess(buildData, input.text, C9_NamedByAlpha3(input.allowList),
                         input.limit, C9_NamedByAlpha3(input.denyList),
                         modelIndexes).result

C9_Witness ==
  /\ Called("guess")
  /\ input.allowList = <<"eng", "es">>
  /\ result.kind = "returned"
  /\ Len(result.value) = 2
  /\ result.value[1].alpha3 = "spa"

\* C10: detectAll has no hidden state that affects results: after any sequence of
\* earlier constructions and detectAll, guess or guessMixed calls, detectAll
\* returns the list it returns as the first call of a process.
C10_NoHiddenState ==
  Called("detectAll")
    => result = detectAll(input.text, input.settings, NoIndexes).result

C10_Witness ==
  /\ Called("detectAll")
  /\ calls = "later"
  /\ guessers # {}
  /\ result.kind = "returned"
  /\ Len(result.value) >= 2

\* C11: detectAll inspects only the first 2048 characters: texts of length >=
\* minLength that agree on their first 2048 characters get the same list, scores
\* included.  Every such text gets the list of their common prefix.
C11_Prefix == SubSeq(input.text, 1, Min2(Len(input.text), 2048))

C11_LongEnough(text) ==
  Len(text) >= (IF input.settings.minLength = {} THEN 10 ELSE Get(input.settings.minLength))

C11_OnlyPrefixInspected ==
  (Called("detectAll") /\ C11_LongEnough(input.text) /\ C11_LongEnough(C11_Prefix))
    => result = detectAll(C11_Prefix, input.settings, NoIndexes).result

C11_Witness ==
  /\ Called("detectAll")
  /\ Len(input.text) = 2048 + 3
  /\ input.text[2048] = "b"
  /\ input.text[2049] = "CYR"
  /\ result.kind = "returned"
  /\ Len(result.value) = 3
  /\ result.value[1][1] = "eng"

\* C12: guess returns at most `limit` entries for every limit >= 0, and they are
\* the first `limit` registry-resolvable candidates of detectAll in detectAll's
\* order (candidates whose code is not in the registry are dropped, the others
\* keep their relative order and scores).
C12_Candidates ==
  detectAll(input.text, GuessOptions(buildData, input.allowList, input.denyList),
            modelIndexes).result.value

C12_Row(code) ==
  languageDataRaw[CHOOSE i \in DOMAIN languageDataRaw : languageDataRaw[i][2] = code]

C12_InRegistry(candidate) ==
  \E i \in DOMAIN languageDataRaw : languageDataRaw[i][2] = candidate[1]

C12_Resolvable ==
  LET known == SelectSeq(C12_Candidates, C12_InRegistry)
  IN  [k \in DOMAIN known |->
         [alpha3 |-> known[k][1], alpha2 |-> C12_Row(known[k][1])[1],
          language |-> C12_Row(known[k][1])[3], score |-> known[k][2]]]

C12_FirstOf(list, n) == SubSeq(list, 1, IF n < Len(list) THEN n ELSE Len(list))

\* the claim as stated
C12_AtMostLimit ==
  (Called("guess") /\ result.kind = "returned" /\ input.limit >= 0)
    => /\ Len(result.value) <= input.limit
       /\ result.value = C12_FirstOf(C12_Resolvable, input.limit)

\* the claim for the calls in which a candidate resolves; when none resolves
\* the single undetermined entry is returned, whatever the limit
C12_AtMostLimitOrUndetermined ==
  (Called("guess") /\ result.kind = "returned" /\ input.limit >= 0)
    => IF C12_Resolvable # <<>>
       THEN /\ Len(result.value) <= input.limit
            /\ result.value = C12_FirstOf(C12_Resolvable, input.limit)
       ELSE result.value = <<Undetermined>>

C12_Witness ==
  /\ Called("guess")
  /\ result.kind = "returned"
  /\ input.limit = 1
  /\ Len(C12_Candidates) = 3
  /\ Len(C12_Resolvable) = 2
  /\ C12_Candidates[1][1] = "bul"
  /\ result.value[1].alpha3 = C12_Candidates[2][1]

\* C13: guessMixed terminates and returns a list for every utterance and every
\* segmentationOptions value the caller can pass (any integer windowSize and
\* stepSize).
C13_GuessMixedTerminates == Called("guessMixed") => result.kind # "diverged"

\* C14: for a normalized padded string s of length n >= 3, getTrigrams returns
\* exactly the n-2 substrings s[i..i+3) for i = 0..n-3 in order of occurrence;
\* the empty sequence when the text is empty or n < 3; e.g. "Hello" gives " he",
\* "hel", "ell", "llo", "lo " (here: "Ab" gives " ab", "ab ").
C14_Padded == Normalize(input.text)

C14_SlidingTrigrams ==
  Called("getTrigrams")
    => /\ result.kind = "returned"
       /\ IF input.text = <<>> \/ Len(C14_Padded) < 3
          THEN result.value = <<>>
          ELSE /\ Len(result.value) = Len(C14_Padded) - 2
               /\ \A i \in 1..(Len(C14_Padded) - 2) :
                    result.value[i] = <<C14_Padded[i], C14_Padded[i + 1], C14_Padded[i + 2]>>
       /\ input.text = <<"A", "b">>
            => result.value = << <<" ", "a", "b">>, <<"a", "b", " ">> >>

C14_Witness ==
  /\ Called("getTrigrams")
  /\ Len(input.text) = MaxTextLen
  /\ Len(result.value) >= 4
  /\ result.value[1] # result.value[2]
  /\ result.value[1][2] = result.value[2][1]
  /\ result.value[1][3] = result.value[2][2]

\* C15: asTuples(text) contains each distinct trigram of getTrigrams(text) exactly
\* once, paired with its number of occurrences (the counts sum to the number of
\* trigrams), sorted by non-decreasing count, with trigrams of equal count kept in
\* order of first occurrence.
C15_Trigrams == getTrigrams(input.text)

C15_Occurrences(t) == {i \in DOMAIN C15_Trigrams : C15_Trigrams[i] = t}

C15_FirstOccurrence(t) ==
  CHOOSE i \in C15_Occurrences(t) : \A j \in C15_Occurrences(t) : i <= j

RECURSIVE C15_SumOfCounts(_)
C15_SumOfCounts(tuples) ==
  IF tuples = <<>> THEN 0 ELSE Head(tuples)[2] + C15_SumOfCounts(Tail(tuples))

C15_FrequencyTuples ==
  Called("asTuples")
    => /\ result.kind = "returned"
       /\ \A i \in DOMAIN C15_Trigrams :
            Cardinality({k \in DOMAIN result.value :
                           result.value[k][1] = C15_Trigrams[i]}) = 1
       /\ \A k \in DOMAIN result.value :
            /\ C15_Occurrences(result.value[k][1]) # {}
            /\ result.value[k][2] = Cardinality(C15_Occurrences(result.value[k][1]))
       /\ C15_SumOfCounts(result.value) = Len(C15_Trigrams)
       /\ \A i, j \in DOMAIN result.value :
            i < j => /\ result.value[i][2] <= result.value[j][2]
                     /\ result.value[i][2] = result.value[j][2]
                          => C15_FirstOccurrence(result.value[i][1])
                               < C15_FirstOccurrence(result.value[j][1])

C15_Witness ==
  /\ Called("asTuples")
  /\ Len(result.value) >= 4
  /\ result.value[1][2] = result.value[2][2]
  /\ result.value[2][2] < result.value[4][2]
  /\ C15_FirstOccurrence(result.value[4][1]) < C15_FirstOccurrence(result.value[2][1])

\* C16: getDistance(profile, model) equals the sum over the profile's (trigram,
\* count) entries of |count - R| / 2 when the trigram is at position R (0-based)
\* in the model and of 300 when it is absent; the result is non-negative and is 0
\* for an empty profile.  Distances are in half units: |count - R| and 600.
C16_Positions(t, model) == {r \in 0..(Len(model) - 1) : model[r + 1] = t}

C16_Term(entry, model) ==
  IF C16_Positions(entry[1], model) = {} THEN 2 * 300
  \* a model that repeats a trigram has it at its last position
  ELSE LET r == CHOOSE p \in C16_Positions(entry[1], model) :
                  \A q \in C16_Positions(entry[1], model) : q <= p
       IN  IF entry[2] >= r THEN entry[2] - r ELSE r - entry[2]

RECURSIVE C16_Sum(_, _)
C16_Sum(profile, model) ==
  IF profile = <<>> THEN 0
  ELSE C16_Term(Head(profile), model) + C16_Sum(Tail(profile), model)

C16_DistanceIsSum ==
  Called("getDistance")
    => /\ result = [kind |-> "returned", value |-> C16_Sum(input.trigrams, input.model)]
       /\ result.value >= 0
       /\ input.trigrams = <<>> => result.value = 0

C16_Witness ==
  /\ Called("getDistance")
  /\ Len(input.trigrams) = 2
  /\ C16_Positions(input.trigrams[1][1], input.model) = {}
  /\ \E r \in C16_Positions(input.trigrams[2][1], input.model) :
       r > input.trigrams[2][2]
  /\ result.value > 2 * 300

\* C17: for a fixed model, adding one more out-of-vocabulary trigram entry to a
\* profile never decreases getDistance, and the increase is exactly 300 (600 half
\* units).
C17_Extended(t, c) ==
  getDistance(input.trigrams \o << <<t, c>> >>, input.model,
              IF input.indexed THEN Some(IndexOfModel(input.model)) ELSE None)

C17_OutOfVocabularyAdds ==
  Called("getDistance")
    => \A t \in ProfileTrigrams, c \in ProfileCounts :
         C16_Positions(t, input.model) = {}
           => /\ C17_Extended(t, c) >= result.value
              /\ C17_Extended(t, c) = result.value + 2 * 300

C17_Witness ==
  /\ Called("getDistance")
  /\ Len(input.trigrams) = 1
  /\ input.model # <<>>
  /\ C16_Positions(input.trigrams[1][1], input.model) # {}
  /\ \E t \in ProfileTrigrams : C16_Positions(t, input.model) = {}
  /\ result.value > 0

\* C18: getDistances returns exactly one (language, distance) pair for each
\* language kept by filterLanguages, sorted by non-decreasing distance, with
\* languages of equal distance in the enumeration order of the filtered table.
C18_Filtered ==
  filterLanguages(ngramsData[input.script],
                  IF input.options.allowList = {} THEN <<>> ELSE Get(input.options.allowList),
                  IF input.options.denyList = {} THEN <<>> ELSE Get(input.options.denyList))

C18_PlaceOf(lang) == CHOOSE k \in DOMAIN C18_Filtered : C18_Filtered[k][1] = lang

C18_RankedDistances ==
  Called("getDistances")
    => /\ result.kind = "returned"
       /\ Len(result.value) = Len(C18_Filtered)
       /\ \A k \in DOMAIN C18_Filtered :
            \E i \in DOMAIN result.value :
              result.value[i] =
                <<C18_Filtered[k][1], getDistance(input.trigrams, C18_Filtered[k][2], None)>>
       /\ \A i, j \in DOMAIN result.value :
            i < j => /\ result.value[i][2] <= result.value[j][2]
                     /\ result.value[i][2] = result.value[j][2]
                          => C18_PlaceOf(result.value[i][1]) < C18_PlaceOf(result.value[j][1])

C18_Witness ==
  /\ Called("getDistances")
  /\ Len(result.value) = 2
  /\ Len(C18_Filtered) < Len(ngramsData[input.script])
  /\ result.value[1][2] < result.value[2][2]
  /\ C18_PlaceOf(result.value[2][1]) < C18_PlaceOf(result.value[1][1])

\* C19: guessMixed returns the per-language aggregates ordered by non-increasing
\* aggregated score, cut to the first `limit` entries, with no alpha3 code
\* appearing twice.
C19_AllAggregates ==
  LET self == CHOOSE g \in guessers : TRUE
  IN  guessMixed(self, input.text, input.allowList, Len(languageDataRaw) + 1,
                 input.segmentationOptions, modelIndexes).result.value

C19_CutTo(all) ==
  /\ Len(result.value) = Min2(input.limit, Len(all))
  /\ result.value = SubSeq(all, 1, Len(result.value))

C19_RankedAggregates ==
  (Called("guessMixed") /\ result.kind = "returned")
    => /\ \A i, j \in DOMAIN result.value :
            i < j => /\ QLeq(result.value[j].score, result.value[i].score)
                     /\ result.value[i].alpha3 # result.value[j].alpha3
       /\ C19_CutTo(C19_AllAggregates)

C19_Witness ==
  /\ Called("guessMixed")
  /\ result.kind = "returned"
  /\ Len(result.value) = 3
  /\ QLess(result.value[2].score, result.value[1].score)
  /\ QLess(result.value[3].score, result.value[2].score)
  /\ Len(C19_AllAggregates) > input.limit

\* C20: when the dominant script has no trigram models and its occurrence is
\* above 0.5, detectAll returns [(scriptId, 1)] if no allow-list is given or the
\* allow-list contains scriptId; otherwise [("jpn", 1)] if scriptId is "cmn" and
\* the allow-list contains "jpn"; otherwise [("und", 1)]; the rules apply in that
\* order.
C20_Top == getTopScript(SubSeq(input.text, 1, Min2(Len(input.text), 2048)))

C20_NoModelScript ==
  /\ Called("detectAll")
  /\ input.text # <<>>
  /\ Len(input.text) >= (IF input.settings.minLength = {} THEN 10
                         ELSE Get(input.settings.minLength))
  /\ C20_Top[1] \notin DOMAIN ngramsData
  /\ 2 * C20_Top[2][1] > C20_Top[2][2]

C20_Allowed(code) ==
  \E allowList \in input.settings.allowList :
    \E k \in DOMAIN allowList : allowList[k] = code

C20_Expected ==
  IF input.settings.allowList = {} \/ C20_Allowed(C20_Top[1])
  THEN << <<C20_Top[1], <<1, 1>> >> >>
  ELSE IF C20_Top[1] = "cmn" /\ C20_Allowed("jpn")
       THEN << <<"jpn", <<1, 1>> >> >>
       ELSE << <<"und", <<1, 1>> >> >>

C20_ScriptWithoutModel ==
  C20_NoModelScript => result = [kind |-> "returned", value |-> C20_Expected]

C20_Witness ==
  /\ C20_NoModelScript
  /\ C20_Top[1] = "cmn"
  /\ C20_Allowed("cmn")
  /\ C20_Allowed("jpn")
  /\ result.value = << <<"cmn", <<1, 1>> >> >>

\* C21: on the trigram path, if the best normalized score is below 0.5
\* detectAll returns [("und", 1)], and the scored list otherwise; so no candidate
\* list returned by detectAll has a first score below 0.5.
C21_OnTrigramPath ==
  /\ Called("detectAll")
  /\ ~C2_ShortText
  /\ LET distances == C7_Distances
     IN  Len(distances) > 0 /\ distances[1][1] # "und"

C21_Floor(scored) ==
  IF scored[1][2][1] * 2 < scored[1][2][2]
  THEN result = [kind |-> "returned", value |-> << <<"und", <<1, 1>> >> >>]
  ELSE result = [kind |-> "returned", value |-> scored]

C22_Count(class) == Cardinality({i \in DOMAIN input.text : input.text[i] \in class})

C22_LatinMajority ==
  /\ C22_Count({"a", "b", "A", "CYR", "HAN", "THAI"}) > 0
  /\ 2 * C22_Count({"a", "b", "A", "ROMAN"}) > C22_Count({"a", "b", "A", "CYR", "HAN", "THAI"})

C22_LatinShortCut ==
  Called("getTopScript")
    => /\ result.kind = "returned"
       /\ Len(input.text) < 3 => result.value = <<"und", <<1, 1>> >>
       /\ isLatin(input.text) <=> C22_LatinMajority
       /\ (Len(input.text) >= 3 /\ C22_LatinMajority) => result.value = <<"Latin", <<1, 1>> >>
       /\ (Len(input.text) >= 3 /\ ~C22_LatinMajority)
            => result.value = ScanScripts(input.text, 1, "", <<-1, 1>>)

C22_Witness ==
  /\ Called("getTopScript")
  /\ Len(input.text) >= 3
  /\ C22_LatinMajority
  /\ C22_Count({"a", "b", "A", "ROMAN"}) < Len(input.text)
  /\ C22_Count({"CYR", "HAN", "THAI"}) > 0
  /\ result.value = <<"Latin", <<1, 1>> >>

\* C23: for a text of length >= 3 that is not Latin-majority, getTopScript
\* returns a registered script whose occurrence ratio (matches / text length) is
\* >= the ratio of every registered script, and among the scripts with that
\* maximal ratio the first in enumeration order; the early return at ratio 1
\* does not change which script is returned.
C23_Matches(k) == C22_Count(scripts(scriptKeys[k]))

C23_IsTop(k) ==
  /\ result.value[1] = scriptKeys[k]
  /\ result.value[2][1] * Len(input.text) = C23_Matches(k) * result.value[2][2]
  /\ \A j \in DOMAIN scriptKeys : C23_Matches(j) <= C23_Matches(k)
  /\ \A j \in 1..(k - 1) : C23_Matches(j) < C23_Matches(k)

C23_TopScript ==
  (Called("getTopScript") /\ Len(input.text) >= 3 /\ ~C22_LatinMajority)
    => \E k \in DOMAIN scriptKeys : C23_IsTop(k)

C23_Witness ==
  /\ Called("getTopScript")
  /\ Len(input.text) >= 3
  /\ input.text[1] = "CYR"
  /\ C22_Count({"HAN"}) = C22_Count({"CYR"})
  /\ C22_Count({"HAN"}) > 0
  /\ result.value[1] = "cmn"

\* C24: guessMixed builds its segments by splitting the utterance at whitespace
\* that follows '.', '!' or '?', trimming each piece and keeping only the pieces
\* of length >= 10; if no piece is kept, the single segment is the whole
\* utterance.
\* the positions where whitespace follows a sentence end
C24_Breaks ==
  {i \in 2..Len(input.text) : input.text[i] = " " /\ input.text[i - 1] = "."}

\* the last position of the whitespace that starts at position i
C24_RunEnd(i) ==
  CHOOSE e \in i..Len(input.text) :
    /\ \A j \in i..e : input.text[j] = " "
    /\ e = Len(input.text) \/ input.text[e + 1] # " "

C24_Starts == {1} \cup {C24_RunEnd(b) + 1 : b \in C24_Breaks}

C24_NthStart(k) ==
  CHOOSE p \in C24_Starts : Cardinality({q \in C24_Starts : q < p}) = k - 1

\* the piece that starts at position p, without the whitespace around it
C24_Piece(p) ==
  LET later == {b \in C24_Breaks : b >= p}
      end == IF later = {} THEN Len(input.text)
             ELSE (CHOOSE b \in later : \A c \in later : b <= c) - 1
      inside == {j \in p..end : input.text[j] # " "}
  IN  IF inside = {} THEN <<>>
      ELSE SubSeq(input.text, CHOOSE j \in inside : \A l \in inside : j <= l,
                  CHOOSE j \in inside : \A l \in inside : j >= l)

C24_Pieces == [k \in 1..Cardinality(C24_Starts) |-> C24_Piece(C24_NthStart(k))]

C24_IsLong(piece) == Len(piece) >= 10

C24_Kept == SelectSeq(C24_Pieces, C24_IsLong)

C24_SentenceSegments ==
  Called("guessMixed")
    => /\ KeptSentences(input.text) = C24_Kept
       /\ C24_Kept = <<>>
            => Segments(input.text, KeptSentences(input.text), 40, 20) = <<input.text>>

C24_Witness ==
  /\ Called("guessMixed")
  /\ Len(C24_Pieces) = 2
  /\ Len(C24_Kept) = 1
  /\ Len(C24_Pieces[2]) = 9
  /\ Len(C24_Pieces[1]) > 10

\* C25: when exactly one segment is kept and its length L exceeds 40,
\* guessMixed replaces it by the windows segment[k*step, k*step+window) for
\* k = 0, 1, ... while k*step < L (window 40 and step 20 unless overridden):
\* there are ceil(L/step) windows, none longer than `window`, only trailing
\* windows may be shorter, and with step <= window every character of the
\* segment is in some window.  In all other cases the sentence segments are
\* used as they are.
C25_Long == Len(C24_Kept) = 1 /\ Len(C24_Kept[1]) > 40

C25_Window ==
  IF input.segmentationOptions.windowSize = {} THEN 40
  ELSE CHOOSE w \in input.segmentationOptions.windowSize : TRUE

C25_Step ==
  IF input.segmentationOptions.stepSize = {} THEN 20
  ELSE CHOOSE w \in input.segmentationOptions.stepSize : TRUE

C25_Slice(segment, k) ==
  SubSeq(segment, k * C25_Step + 1, Min2(k * C25_Step + C25_Window, Len(segment)))

C25_Described(segment, windows) ==
  /\ Len(windows) * C25_Step >= Len(segment)
  /\ (Len(windows) - 1) * C25_Step < Len(segment)
  /\ \A k \in DOMAIN windows :
       /\ windows[k] = C25_Slice(segment, k - 1)
       /\ Len(windows[k]) <= C25_Window
       /\ Len(windows[k]) < C25_Window
            => \A j \in DOMAIN windows : j > k => Len(windows[j]) < C25_Window
  /\ C25_Step <= C25_Window
       => \A p \in DOMAIN segment :
            \E k \in DOMAIN windows :
              (k - 1) * C25_Step < p /\ p <= (k - 1) * C25_Step + Len(windows[k])

C25_SlidingWindows ==
  Called("guessMixed")
    => /\ C25_Long
            => /\ result.kind # "diverged"
               /\ C25_Described(C24_Kept[1],
                                Segments(input.text, KeptSentences(input.text),
                                         C25_Window, C25_Step))
       /\ (~C25_Long /\ C24_Kept # <<>>)
            => Segments(input.text, KeptSentences(input.text), C25_Window, C25_Step)
                 = C24_Kept

\* C26: for each language code, the score guessMixed reports equals (the sum,
\* over the segments in which the language is among that segment's up-to-3
\* guess candidates, of score * segment length) divided by (the sum of those
\* segments' lengths), and 0 when that sum of lengths is 0.
C26_Segments ==
  Segments(input.text, KeptSentences(input.text), C25_Window, C25_Step)

\* what guess gives for each segment
C26_Guesses ==
  LET self == CHOOSE g \in guessers : TRUE
      segments == C26_Segments
  IN  [k \in DOMAIN segments |->
         [length |-> Len(segments[k]),
          candidates |-> guess(self, segments[k], input.allowList, 3, <<>>,
                               modelIndexes).result.value]]

\* the segments that have the language among their candidates
C26_With(guesses, code) ==
  {k \in DOMAIN guesses :
     \E c \in DOMAIN guesses[k].candidates : guesses[k].candidates[c].alpha3 = code}

C26_ScoreIn(g, code) ==
  LET c == CHOOSE d \in DOMAIN g.candidates : g.candidates[d].alpha3 = code
  IN  QMulNat(QOf(g.candidates[c].score[1], g.candidates[c].score[2]), g.length)

RECURSIVE C26_TotalScore(_, _, _)
C26_TotalScore(guesses, code, ks) ==
  IF ks = {} THEN QOf(0, 1)
  ELSE LET k == CHOOSE x \in ks : TRUE
       IN  QAdd(C26_ScoreIn(guesses[k], code), C26_TotalScore(guesses, code, ks \ {k}))

RECURSIVE C26_TotalLength(_, _)
C26_TotalLength(guesses, ks) ==
  IF ks = {} THEN 0
  ELSE LET k == CHOOSE x \in ks : TRUE
       IN  guesses[k].length + C26_TotalLength(guesses, ks \ {k})

C26_IsAverage(guesses, entry, ks) ==
  IF C26_TotalLength(guesses, ks) = 0
  THEN QEq(entry.score, QOf(0, 1))
  ELSE QEq(QMulNat(entry.score, C26_TotalLength(guesses, ks)),
           C26_TotalScore(guesses, entry.alpha3, ks))

C26_AllAverages(guesses) ==
  \A i \in DOMAIN result.value :
    C26_IsAverage(guesses, result.value[i], C26_With(guesses, result.value[i].alpha3))

C26_WitnessFor(guesses) ==
  /\ Len(guesses) = 2
  /\ guesses[1].length # guesses[2].length
  /\ \E i \in DOMAIN result.value :
       /\ C26_With(guesses, result.value[i].alpha3) = {1, 2}
       /\ QLess(QOf(0, 1), result.value[i].score)
       /\ QLess(result.value[i].score, QOf(1, 1))

C27_Positions ==
  /\ DOMAIN modelIndexes = DOMAIN ngramsData
  /\ \A script \in DOMAIN modelIndexes :
       /\ DOMAIN modelIndexes[script]
            = {ngramsData[script][r][1] : r \in DOMAIN ngramsData[script]}
       /\ \A r \in DOMAIN ngramsData[script] :
            LET lang == ngramsData[script][r][1]
                model == ngramsData[script][r][2]
            IN  /\ DOMAIN modelIndexes[script][lang] = {model[k] : k \in DOMAIN model}
                /\ \A k \in DOMAIN model : modelIndexes[script][lang][model[k]] = k - 1

\* the claim as written: built after any first construction or detectAll call
C27_BuiltAfterFirstCall ==
  (guessers # {} \/ Called("detectAll")) => C27_Positions

\* as amended: built after the first construction or the first detectAll call
\* that passes the length guard, and never changed once built
C27_BuiltOnce ==
  /\ [](((guessers # {} \/ (Called("detectAll") /\ ~C2_ShortText)) => C27_Positions)
        /\ (modelIndexes = <<>> \/ C27_Positions))
  /\ [][modelIndexes # <<>> => modelIndexes' = modelIndexes]_vars

C27_Witness ==
  /\ Called("detectAll")
  /\ ~C2_ShortText
  /\ calls = "later"
  /\ guessers = {}
  /\ C27_Positions

C29_ScoresOf(guesses, code) ==
  UNION {{guesses[k].candidates[c].score :
            c \in {d \in DOMAIN guesses[k].candidates :
                     guesses[k].candidates[d].alpha3 = code}} :
         k \in C26_With(guesses, code)}

C29_InExactRange(entry, scores) ==
  \E lo \in scores, hi \in scores :
    /\ QLeq(QOf(lo[1], lo[2]), entry.score)
    /\ QLeq(entry.score, QOf(hi[1], hi[2]))

\* between the smallest and the largest per-segment double
C29_InDoubleRange(entry, scores) ==
  \E lo \in scores, hi \in scores :
    /\ QLeq(ScoreAsDouble(lo), entry.score)
    /\ QLeq(entry.score, ScoreAsDouble(hi))

\* x * (2^50 + sign) / 2^50
C29_Scaled(x, sign) ==
  [neg |-> x.neg,
   num |-> BigMul(x.num, IF sign > 0 THEN BigAdd(Pow2(50), <<1>>)
                         ELSE BigSub(Pow2(50), <<1>>)),
   den |-> BigMul(x.den, Pow2(50))]

C29_NearDoubleRange(entry, scores) ==
  \E lo \in scores, hi \in scores :
    /\ QLeq(C29_Scaled(ScoreAsDouble(lo), -1), entry.score)
    /\ QLeq(entry.score, C29_Scaled(ScoreAsDouble(hi), 1))

C29_UnitInterval(scores) ==
  \A x \in scores : QLeq(QZero, QOf(x[1], x[2])) /\ QLeq(QOf(x[1], x[2]), QOf(1, 1))

RECURSIVE C30_Reduce(_, _)
C30_Reduce(model, k) ==
  IF k = 0 THEN <<>>
  ELSE LET acc == C30_Reduce(model, k - 1)
       IN  [t \in DOMAIN acc \cup {model[k]} |-> IF t = model[k] THEN k - 1 ELSE acc[t]]

C30_Precomputed(script) ==
  [lang \in {ngramsData[script][r][1] : r \in DOMAIN ngramsData[script]} |->
     C30_Reduce(ModelOf(ngramsData[script], lang),
                Len(ModelOf(ngramsData[script], lang)))]

C30_SameDistance ==
  /\ result.value = getDistance(input.trigrams, input.model, None)
  /\ result.value = getDistance(input.trigrams, input.model,
                                Some(C30_Reduce(input.model, Len(input.model))))
  \* and with the index that buildModelIndexes stored for the model
  /\ \A script \in DOMAIN modelIndexes :
       \A lang \in DOMAIN modelIndexes[script] :
         ModelOf(ngramsData[script], lang) = input.model
           => result.value = getDistance(input.trigrams, input.model,
                                         Some(modelIndexes[script][lang]))

C30_SameRanking ==
  /\ result.value = getDistances(input.trigrams, ngramsData[input.script],
                                 input.options, None)
  /\ result.value = getDistances(input.trigrams, ngramsData[input.script],
                                 input.options, Some(C30_Precomputed(input.script)))
  /\ modelIndexes # <<>>
       => result.value = getDistances(input.trigrams, ngramsData[input.script],
                                      input.options, Some(modelIndexes[input.script]))

C30_IndexIsOptional ==
  /\ Called("getDistance") => C30_SameDistance
  /\ Called("getDistances") => C30_SameRanking

\* the index is rebuilt from a model that has the profile's trigram twice, at
\* positions that give different terms
C30_Witness ==
  /\ Called("getDistance")
  /\ ~input.indexed
  /\ \E k \in DOMAIN input.trigrams :
       \E p \in C16_Positions(input.trigrams[k][1], input.model),
          q \in C16_Positions(input.trigrams[k][1], input.model) :
         /\ p < q
         /\ Abs(input.trigrams[k][2] - p) # Abs(input.trigrams[k][2] - q)
  /\ result.value < 2 * MISSING_TRIGRAM_PENALTY
====
